---- MODULE Spec2Model ----
(***************************************************************************)
(* Model of archiva-python: the Session of src/archiva/__init__.py, the    *)
(* Logger of src/archiva/logger.py and the command line client of          *)
(* src/archiva-cli.py.                                                     *)
(*                                                                         *)
(* Strings whose characters matter (the Set-Cookie header, the session     *)
(* token) are tuples of one-character strings; Python's 0-based indices    *)
(* are kept, so the character at Python index i of s is s[i + 1].          *)
(* Instruction lines, package groups, names and versions are tuples of     *)
(* words and of the separators ":" and "."; a word holds no separator.     *)
(***************************************************************************)
EXTENDS Integers, Sequences, FiniteSets, TLC

VARIABLES
    session_cookie,  \* Session.session_cookie, or Unset while the attribute does not exist
    set_referer,     \* Session.set_referer
    level,           \* Logger.level of the session's logger
    requests,        \* every HTTP request sent so far, in order
    out,             \* every line written to the console so far, in order
    files,           \* the local files: file name -> content, or NoFile
    last,            \* the last call of a Session method: its arguments, responses and outcome
    execute,         \* args.execute of main(): "i" or the single instruction
    pc,              \* position of main() (Spec) or "lib" for a direct caller (SpecLib)
    executed,        \* number of instructions main() has run inside the guarded block
    entered,         \* ins of main(): the line input() returned last
    pending          \* the way the guarded block ended, while __exit__ and the handlers run

vars ==
    <<session_cookie, set_referer, level, requests, out, files, last, execute, pc, executed, entered,
      pending>>

-----------------------------------------------------------------------------
(* Bounds *)

\* most Session method calls a direct caller makes
MaxCalls == 3
\* most instructions main() runs in one interactive session
MaxIns == 2
\* most calls made on one Logger
MaxLogs == 2
\* longest dotted group.name given to the dispatcher, in words and dots
MaxDotted == 5

-----------------------------------------------------------------------------
(* Python built-ins used by the code *)

Max(a, b) == IF a >= b THEN a ELSE b
Min(a, b) == IF a <= b THEN a ELSE b

\* a slice index as Python normalises it for a string of length n
SliceIndex(i, n) == IF i < 0 THEN Max(i + n, 0) ELSE Min(i, n)

\* s[a:b]
PySlice(s, a, b) ==
    LET lo == SliceIndex(a, Len(s))
        hi == SliceIndex(b, Len(s))
    IN  IF lo >= hi THEN <<>> ELSE SubSeq(s, lo + 1, hi)

\* s.find(sub, start): lowest index >= start where sub occurs in s, else -1
PyFind(s, sub, start) ==
    LET from == SliceIndex(start, Len(s))
        hits == {i \in from .. (Len(s) - Len(sub)) : SubSeq(s, i + 1, i + Len(sub)) = sub}
    IN  IF hits = {} THEN -1 ELSE CHOOSE i \in hits : \A j \in hits : i <= j

\* s.find(sub)
PyFind0(s, sub) == PyFind(s, sub, 0)

-----------------------------------------------------------------------------
(* Values *)

\* session_cookie before login() first sets the attribute (no token has this shape)
Unset == <<"<no attribute>">>
NoFile == [encoding |-> "none"]
None == [t |-> "None"]
False == [t |-> "bool", b |-> FALSE]
PyStr(s) == [t |-> "str", s |-> s]
JList(items) == [t |-> "list", items |-> items]

host == "http://archiva"

JSESSIONID == <<"J", "S", "E", "S", "S", "I", "O", "N", "I", "D">>
Semicolon == <<";">>

\* Set-Cookie header values a server may send with a 200 login response:
\*   JSESSIONID=x; Path=/      a=b; JSESSIONID=yz; Path=/     JSESSIONID=yz;
\*   JSESSIONID=x              a=b; JSESSIONID=x              a=b;
Other == <<"a", "=", "b", ";", " ">>
Path == <<";", " ", "P", "a", "t", "h", "=", "/">>
JSessionId(v) == JSESSIONID \o <<"=">> \o v
SetCookies ==
    {JSessionId(<<"x">>) \o Path, Other \o JSessionId(<<"y", "z">>) \o Path,
     JSessionId(<<"y", "z">>) \o Semicolon,
     JSessionId(<<"x">>), Other \o JSessionId(<<"x">>),
     <<"a", "=", "b", ";">>}

ErrorStatuses == {401, 500}
Statuses == {200} \cup ErrorStatuses

\* response headers: a function from header names
NoHeaders == <<>>
Header(name, value) == name :> value

\* a response body: the text of a JSON document, or other text
Json(v) == [encoding |-> "json", of |-> v]
Text(s) == [encoding |-> "text", text |-> s]

Response(status, headers, body) == [status_code |-> status, headers |-> headers, body |-> body]

\* res.json(): the decoded document, or json.decoder.JSONDecodeError carrying the text
json(res) ==
    IF res.body.encoding = "json"
    THEN [ok |-> TRUE, value |-> res.body.of]
    ELSE [ok |-> FALSE, doc |-> res.body.text]

-----------------------------------------------------------------------------
(* Exceptions and the result of a call *)

NoExc == [type |-> "none"]
ErrorResponse(status_code, error_messages) ==
    [type |-> "ErrorResponse", status_code |-> status_code, error_messages |-> error_messages]
\* ErrorResponse(status_code), with the default error_messages=[]
ErrorResponse1(status_code) == ErrorResponse(status_code, JList(<<>>))
JSONDecodeError(doc) == [type |-> "JSONDecodeError", doc |-> doc]
KeyError(key) == [type |-> "KeyError", key |-> key]
AttributeError(name) == [type |-> "AttributeError", name |-> name]
TypeError == [type |-> "TypeError"]
ValueError == [type |-> "ValueError"]
EOFError == [type |-> "EOFError"]

\* the session-visible state a method works on
State == [session_cookie |-> session_cookie, requests |-> requests, out |-> out, files |-> files]

Return(s, value) == [s |-> s, exc |-> NoExc, ret |-> value]
Raise(s, exc) == [s |-> s, exc |-> exc, ret |-> None]

-----------------------------------------------------------------------------
(* Logger, src/archiva/logger.py *)

Upper(tag) == CASE tag = "i" -> "I" [] tag = "w" -> "W" [] tag = "e" -> "E" [] OTHER -> tag

\* Logger.log: always emits (the timestamp is left out)
Logger_log(o, tag, msg, file) == Append(o, [tag |-> Upper(tag), msg |-> msg, file |-> file])

\* an info method that also writes at the warning level
Logger_i_lenient(o, msg) == IF level <= 2 THEN Logger_log(o, "i", msg, "stdout") ELSE o
\* an error method that is silent at the error level
Logger_e_strict(o, msg) == IF level < 3 THEN Logger_log(o, "e", msg, "stderr") ELSE o

Logger_i(o, msg) == IF level <= 1 THEN Logger_log(o, "i", msg, "stdout") ELSE o
Logger_w(o, msg) == IF level <= 2 THEN Logger_log(o, "w", msg, "stderr") ELSE o
Logger_e(o, msg) == IF level <= 3 THEN Logger_log(o, "e", msg, "stderr") ELSE o

-----------------------------------------------------------------------------
(* Session, src/archiva/__init__.py *)

user == "guest"
password == "secret"

\* LoginRequest(user, password).get_xml()
LoginRequest_get_xml(u, p) ==
    <<"<loginRequest>", "<username>", u, "</username>", "<password>", p, "</password>", "</loginRequest>">>

\* if self.set_referer: headers["Referer"] = self.host
WithReferer(headers) == IF set_referer THEN headers @@ Header("Referer", host) ELSE headers

Request(method, uri, headers, data) == [method |-> method, uri |-> uri, headers |-> headers, data |-> data]

\* requests.post / requests.get: the request goes out, and the logger's info line before it
Send(s, method, uri, headers, data) ==
    [s EXCEPT !.out = Logger_i(s.out, <<method>> \o uri),
              !.requests = Append(s.requests, Request(method, uri, headers, data))]

LoginUri == <<host, "/restServices/redbackServices/loginService/logIn">>
LogoutUri == <<host, "/restServices/redbackServices/loginService/logout">>
VersionsListUri(g, n) ==
    <<host, "/restServices/archivaServices/browseService/versionsList/">> \o g \o <<"/">> \o n
DownloadInfosUri(g, n, v) ==
    <<host, "/restServices/archivaServices/browseService/artifactDownloadInfos/">>
        \o g \o <<"/">> \o n \o <<"/">> \o v

\* Session.extract_session_cookie
extract_session_cookie(set_cookie_value) ==
    LET start_idx == PyFind0(set_cookie_value, JSESSIONID)
        end_idx == PyFind(set_cookie_value, Semicolon, start_idx)
    IN  PySlice(set_cookie_value, start_idx, end_idx)

\* the loop of login() over body["errorMessages"]: the entries whose errorKey is logged
\* before the loop ends or meets an entry without an errorKey
LoggedEntries(entries) ==
    LET bad == {i \in 1 .. Len(entries) : "errorKey" \notin DOMAIN entries[i]}
    IN  IF bad = {} THEN entries
        ELSE SubSeq(entries, 1, (CHOOSE i \in bad : \A j \in bad : i <= j) - 1)

RECURSIVE LogErrorKeys(_, _)
LogErrorKeys(o, entries) ==
    IF entries = <<>> THEN o
    ELSE LogErrorKeys(Logger_e(o, <<Head(entries).errorKey>>), Tail(entries))

\* a login() that raises ErrorResponse with the whole decoded body, whatever it holds
LoginFailure_raw_body(s, res) ==
    LET decoded == json(res)
    IN  IF ~decoded.ok
        THEN IF decoded.doc = ""
             THEN Raise(s, ErrorResponse1(res.status_code))
             ELSE Raise(s, JSONDecodeError(decoded.doc))
        ELSE Raise(s, ErrorResponse(res.status_code, decoded.value))

\* the body of login() once the response is not 200 OK
LoginFailure(s, res) ==
    LET decoded == json(res)
        body == decoded.value
    IN  IF ~decoded.ok
        THEN IF decoded.doc = ""
             THEN Raise(s, ErrorResponse1(res.status_code))
             ELSE Raise(s, JSONDecodeError(decoded.doc))
        ELSE IF body.t = "num"
        THEN Raise(s, TypeError)
        ELSE IF "errorMessages" \in DOMAIN body
        THEN LET entries == body.errorMessages.items
                 logged == LoggedEntries(entries)
                 s1 == [s EXCEPT !.out = LogErrorKeys(s.out, logged)]
             IN  IF Len(logged) < Len(entries)
                 THEN Raise(s1, KeyError("errorKey"))
                 ELSE Raise(s1, ErrorResponse(res.status_code, body.errorMessages))
        ELSE Raise(s, ErrorResponse(res.status_code, body))

\* the body of login() once the response is 200 OK
LoginSuccess(s, res) ==
    IF "Set-Cookie" \notin DOMAIN res.headers
    THEN Raise(s, KeyError("Set-Cookie"))
    ELSE Return([s EXCEPT !.session_cookie = extract_session_cookie(res.headers["Set-Cookie"])],
                None)

\* Session.login
login(s, res) ==
    LET headers == WithReferer(Header("Content-Type", "application/xml")
                               @@ Header("Accept", "application/json"))
        s1 == Send(s, "POST", LoginUri, headers, LoginRequest_get_xml(user, password))
    IN  IF res.status_code # 200 THEN LoginFailure(s1, res) ELSE LoginSuccess(s1, res)

\* a session whose token can be read before any login
HasCookie_unchecked(s) == TRUE

\* headers = {"Cookie": self.session_cookie}: the read fails while the attribute is not set
HasCookie(s) == s.session_cookie # Unset

\* headers that leave the cookie out
CookieHeader_missing(s) == NoHeaders

CookieHeader(s) == Header("Cookie", s.session_cookie)

\* a logout() that forgets the token
logout_clears_token(s, res) ==
    IF ~HasCookie(s) THEN Raise(s, AttributeError("session_cookie"))
    ELSE Return([Send(s, "GET", LogoutUri, WithReferer(CookieHeader(s)), None)
                    EXCEPT !.session_cookie = Unset], None)

\* a logout() that only forgets the session locally and sends nothing
logout_without_request(s, res) ==
    IF ~HasCookie(s) THEN Raise(s, AttributeError("session_cookie")) ELSE Return(s, None)

\* Session.logout
logout(s, res) ==
    IF ~HasCookie(s) THEN Raise(s, AttributeError("session_cookie"))
    ELSE Return(Send(s, "GET", LogoutUri, WithReferer(CookieHeader(s)), None), None)

\* a __enter__ that swallows the error of login()
Session_enter_swallows(s, res) == Return(login(s, res).s, None)

\* Session.__enter__: login on enter; an error of login() leaves the with statement
Session_enter(s, res) == login(s, res)

\* a __exit__ that logs out only when the guarded block raised nothing
Session_exit_unless_raised(s, res) ==
    IF pending.type \in {"none", "return"} THEN logout(s, res) ELSE Return(s, None)

\* Session.__exit__: logout on exit; it returns None, so an exception of the block goes on
Session_exit(s, res) == logout(s, res)

\* an end that takes every status below 500 for success
JsonOrError_below_500(s, res) ==
    IF res.status_code < 500
    THEN LET decoded == json(res)
         IN  IF decoded.ok THEN Return(s, decoded.value)
             ELSE Raise(s, JSONDecodeError(decoded.doc))
    ELSE Raise([s EXCEPT !.out = Logger_e(s.out, <<"status code: ", ToString(res.status_code)>>)],
               ErrorResponse1(res.status_code))

\* the end of get_versions_list and get_download_infos: the decoded body on 200 OK
JsonOrError(s, res) ==
    IF res.status_code = 200
    THEN LET decoded == json(res)
         IN  IF decoded.ok THEN Return(s, decoded.value)
             ELSE Raise(s, JSONDecodeError(decoded.doc))
    ELSE Raise([s EXCEPT !.out = Logger_e(s.out, <<"status code: ", ToString(res.status_code)>>)],
               ErrorResponse1(res.status_code))

\* Session.get_versions_list
get_versions_list(s, package_group, package_name, res) ==
    IF ~HasCookie(s) THEN Raise(s, AttributeError("session_cookie"))
    ELSE LET headers == WithReferer(CookieHeader(s) @@ Header("Accept", "application/json"))
             s1 == Send(s, "GET", VersionsListUri(package_group, package_name), headers, None)
         IN  JsonOrError(s1, res)

\* Session.get_download_infos
get_download_infos(s, package_group, package_name, package_version, res) ==
    IF ~HasCookie(s) THEN Raise(s, AttributeError("session_cookie"))
    ELSE LET headers == WithReferer(CookieHeader(s))
             uri == DownloadInfosUri(package_group, package_name, package_version)
             s1 == Send(s, "GET", uri, headers, None)
         IN  JsonOrError(s1, res)

\* with open(filename, "wb") as f: f.write(res.content)
WriteFile(fs, filename, content) == [fs EXCEPT ![filename] = content]

\* the part of download() after the download infos were fetched and found not empty
Fetch(s, download_info, res) ==
    LET url == download_info.url
        filename == download_info.id
        s1 == Send(s, "GET", <<url>>, WithReferer(CookieHeader(s)), None)
    IN  IF res.status_code = 200
        THEN Return([s1 EXCEPT !.files = WriteFile(s1.files, filename, res.body)], PyStr(filename))
        ELSE Raise([s1 EXCEPT !.out = Logger_e(s1.out, <<"status code: ", ToString(res.status_code)>>)],
                   ErrorResponse1(res.status_code))

\* a download() that returns None where there is no content
download_returns_none(s, g, n, v, res, res2) ==
    LET infos == get_download_infos(s, g, n, v, res)
        download_infos == infos.ret.items
    IN  IF infos.exc # NoExc THEN infos
        ELSE IF Len(download_infos) > 0
        THEN Fetch(infos.s, download_infos[1], res2)
        ELSE Return(infos.s, None)

\* a download() that takes the last record
download_last_record(s, g, n, v, res, res2) ==
    LET infos == get_download_infos(s, g, n, v, res)
        download_infos == infos.ret.items
    IN  IF infos.exc # NoExc THEN infos
        ELSE IF Len(download_infos) > 0
        THEN Fetch(infos.s, download_infos[Len(download_infos)], res2)
        ELSE Return(infos.s, False)

\* a download() that takes a refused download infos request for "no data"
download_swallows_error(s, g, n, v, res, res2) ==
    LET infos == get_download_infos(s, g, n, v, res)
        download_infos == infos.ret.items
    IN  IF infos.exc # NoExc THEN Return(infos.s, False)
        ELSE IF Len(download_infos) > 0
        THEN Fetch(infos.s, download_infos[1], res2)
        ELSE Return(infos.s, False)

\* Session.download; res is the answer to the download infos request and res2 the
\* answer to the artifact request, should it be sent
download(s, g, n, v, res, res2) ==
    LET infos == get_download_infos(s, g, n, v, res)
        download_infos == infos.ret.items
    IN  IF infos.exc # NoExc THEN infos
        ELSE IF Len(download_infos) > 0
        THEN Fetch(infos.s, download_infos[1], res2)
        ELSE Return(infos.s, False)

-----------------------------------------------------------------------------
(* The server: the responses each endpoint may give *)

BadCredentials == [errorKey |-> "bad.credentials"]
UserLocked == [errorKey |-> "user.locked"]
NoErrorKey == [args |-> "x"]
ErrorLists == {<<>>, <<BadCredentials>>, <<BadCredentials, UserLocked>>, <<BadCredentials, NoErrorKey>>}

LoginErrorBodies ==
    {Json([t |-> "obj", errorMessages |-> JList(l)]) : l \in ErrorLists}
    \cup {Json([t |-> "obj", message |-> "x"]), Json([t |-> "num", n |-> 5]), Text(""), Text("<html>")}

LoginResponses ==
    {Response(200, Header("Set-Cookie", c), Text("")) : c \in SetCookies}
    \cup {Response(200, NoHeaders, Text(""))}
    \cup {Response(st, NoHeaders, b) : st \in ErrorStatuses, b \in LoginErrorBodies}

LogoutResponses == {Response(st, NoHeaders, Text("")) : st \in {200, 500}}

Versions == [t |-> "obj", versions |-> JList(<<"1.0", "1.1">>)]
VersionsResponses ==
    {Response(200, NoHeaders, Json(Versions)), Response(200, NoHeaders, Text("<html>"))}
    \cup {Response(st, NoHeaders, Text("")) : st \in ErrorStatuses}

FileNames == {"a.jar", "b.jar"}
InfoA == [id |-> "a.jar", url |-> "http://repo/a.jar"]
InfoB == [id |-> "b.jar", url |-> "http://repo/b.jar"]
InfoLists == {<<>>, <<InfoA>>, <<InfoA, InfoB>>, <<InfoB, InfoA>>}
InfosResponses ==
    {Response(200, NoHeaders, Json(JList(l))) : l \in InfoLists}
    \cup {Response(200, NoHeaders, Text("<html>"))}
    \cup {Response(st, NoHeaders, Text("")) : st \in ErrorStatuses}

ArtifactResponses ==
    {Response(200, NoHeaders, Text("bytes"))}
    \cup {Response(st, NoHeaders, Text("")) : st \in ErrorStatuses}

Groups == {<<"org", ".", "x">>}
Names == {<<"n">>}
PackageVersions == {<<"1.0">>}
Levels == 1 .. 4

-----------------------------------------------------------------------------
(* Calls of the Session's methods *)

\* what the state was when the last call began
Pre == [session_cookie |-> session_cookie, requests |-> Len(requests), out |-> Len(out), files |-> files]

Call(op, args, res, r) ==
    [op |-> op, args |-> args, res |-> res, exc |-> r.exc, ret |-> r.ret, pre |-> Pre]
NoCall ==
    [op |-> "none", args |-> <<>>, res |-> <<>>, exc |-> NoExc, ret |-> None,
     pre |-> [session_cookie |-> Unset, requests |-> 0, out |-> 0, files |-> [f \in FileNames |-> NoFile]]]

\* the session after a call with result r
Becomes(r) ==
    /\ session_cookie' = r.s.session_cookie
    /\ requests' = r.s.requests
    /\ out' = r.s.out
    /\ files' = r.s.files

\* the responses download() got: the second only if the artifact request was sent
DownloadResponses(r, res, res2) ==
    IF Len(r.s.requests) = Len(requests) + 2 THEN <<res, res2>> ELSE <<res>>

InitSession ==
    /\ session_cookie = Unset
    /\ set_referer \in BOOLEAN
    /\ requests = <<>>
    /\ out = <<>>
    /\ files = [f \in FileNames |-> NoFile]
    /\ last = NoCall
    /\ executed = 0
    /\ entered = <<>>
    /\ pending = NoExc

-----------------------------------------------------------------------------
(* SpecLib: a caller that constructs a Session and calls its methods in any order *)

\* the caller leaves the logger to the default of Session.__init__, Logger(), or passes
\* Logger("s")
InitLib == InitSession /\ level \in {2, 4} /\ execute = <<"i">> /\ pc = "lib"

LibCall(op, args, res, r) ==
    /\ pc = "lib"
    /\ executed < MaxCalls
    /\ Becomes(r)
    /\ last' = Call(op, args, res, r)
    /\ executed' = executed + 1
    /\ UNCHANGED <<set_referer, level, execute, pc, entered, pending>>

CallLogin == \E res \in LoginResponses : LibCall("login", <<>>, <<res>>, login(State, res))

CallLogout == \E res \in LogoutResponses : LibCall("logout", <<>>, <<res>>, logout(State, res))

CallGetVersionsList ==
    \E g \in Groups, n \in Names, res \in VersionsResponses :
        LibCall("get_versions_list", <<g, n>>, <<res>>, get_versions_list(State, g, n, res))

CallGetDownloadInfos ==
    \E g \in Groups, n \in Names, v \in PackageVersions, res \in InfosResponses :
        LibCall("get_download_infos", <<g, n, v>>, <<res>>, get_download_infos(State, g, n, v, res))

CallDownload ==
    \E g \in Groups, n \in Names, v \in PackageVersions,
       res \in InfosResponses, res2 \in ArtifactResponses :
        LET r == download(State, g, n, v, res, res2)
        IN  LibCall("download", <<g, n, v>>, DownloadResponses(r, res, res2), r)

NextLib == CallLogin \/ CallLogout \/ CallGetVersionsList \/ CallGetDownloadInfos \/ CallDownload

SpecLib == InitLib /\ [][NextLib]_vars

-----------------------------------------------------------------------------
(* SpecLogger: a Logger constructed from a level string and called directly *)

\* str.lower(), on the letters
LowerCase ==
    "A" :> "a" @@ "B" :> "b" @@ "C" :> "c" @@ "D" :> "d" @@ "E" :> "e" @@ "F" :> "f" @@ "G" :> "g"
    @@ "H" :> "h" @@ "I" :> "i" @@ "J" :> "j" @@ "K" :> "k" @@ "L" :> "l" @@ "M" :> "m" @@ "N" :> "n"
    @@ "O" :> "o" @@ "P" :> "p" @@ "Q" :> "q" @@ "R" :> "r" @@ "S" :> "s" @@ "T" :> "t" @@ "U" :> "u"
    @@ "V" :> "v" @@ "W" :> "w" @@ "X" :> "x" @@ "Y" :> "y" @@ "Z" :> "z"
PyLower(s) == [i \in 1 .. Len(s) |-> IF s[i] \in DOMAIN LowerCase THEN LowerCase[s[i]] ELSE s[i]]

\* s.startswith(prefix)
PyStartsWith(s, prefix) == Len(s) >= Len(prefix) /\ SubSeq(s, 1, Len(prefix)) = prefix

\* a constructor that takes an unknown level for the documented default, "w"
Logger_init_default_w(lvl) ==
    IF PyStartsWith(PyLower(lvl), <<"i">>) THEN 1
    ELSE IF PyStartsWith(PyLower(lvl), <<"s">>) THEN 4
    ELSE IF PyStartsWith(PyLower(lvl), <<"e">>) THEN 3
    ELSE 2

\* Logger.__init__(level): the value of self.level
Logger_init(lvl) ==
    IF PyStartsWith(PyLower(lvl), <<"i">>) THEN 1
    ELSE IF PyStartsWith(PyLower(lvl), <<"w">>) THEN 2
    ELSE IF PyStartsWith(PyLower(lvl), <<"s">>) THEN 4
    ELSE 3

\* Logger(*args): level="w" when no argument is given
Logger_new(args) == IF args = <<>> THEN Logger_init(<<"w">>) ELSE Logger_init(args[1])

\* level strings a caller may pass
LevelStrings ==
    {<<"i">>, <<"I">>, <<"i", "n", "f", "o">>, <<"w">>, <<"W">>, <<"W", "a", "r", "n">>,
     <<"s">>, <<"S">>, <<"s", "i", "l", "e", "n", "t">>,
     <<"e">>, <<"E">>, <<"e", "r", "r", "o", "r">>,
     <<"x">>, <<"d", "e", "b", "u", "g">>, <<" ", "i">>, <<>>}
LoggerArgs == {<<>>} \cup {<<l>> : l \in LevelStrings}
Messages == {<<"m">>}
Tags == {"i", "note"}

\* a module that imported archiva: Session.__init__ holds its default logger, Logger()
InitLogger == InitSession /\ level = Logger_new(<<>>) /\ execute = <<"i">> /\ pc = "logger"

LoggerCall(op, args, lvl, o) ==
    /\ pc = "logger"
    /\ executed < MaxLogs
    /\ level' = lvl
    /\ out' = o
    /\ last' = Call(op, args, <<>>, Return(State, None))
    /\ executed' = executed + 1
    /\ UNCHANGED <<session_cookie, set_referer, requests, files, execute, pc, entered, pending>>

Construct == \E args \in LoggerArgs : LoggerCall("Logger", args, Logger_new(args), out)
CallInfo == \E msg \in Messages : LoggerCall("i", <<msg>>, level, Logger_i(out, msg))
CallWarn == \E msg \in Messages : LoggerCall("w", <<msg>>, level, Logger_w(out, msg))
CallError == \E msg \in Messages : LoggerCall("e", <<msg>>, level, Logger_e(out, msg))
CallLog ==
    \E tag \in Tags, msg \in Messages :
        LoggerCall("log", <<<<tag>>, msg>>, level, Logger_log(out, tag, msg, "stdout"))

NextLogger == Construct \/ CallInfo \/ CallWarn \/ CallError \/ CallLog

SpecLogger == InitLogger /\ [][NextLogger]_vars

-----------------------------------------------------------------------------
(* The command dispatcher, src/archiva-cli.py *)

\* print(msg, file=file) and pp.pprint(value)
builtin_print(o, msg, file) == Append(o, [tag |-> "", msg |-> msg, file |-> file])
pp_pprint(o, value) == Append(o, [tag |-> "", msg |-> <<"pprint">>, file |-> "stdout", value |-> value])

\* s.startswith(prefix)
StartsWith(s, prefix) == Len(s) >= Len(prefix) /\ SubSeq(s, 1, Len(prefix)) = prefix

\* s.split(sep)
RECURSIVE Split(_, _)
Split(s, sep) ==
    LET at == {i \in 1 .. Len(s) : s[i] = sep}
    IN  IF at = {} THEN <<s>>
        ELSE LET i == CHOOSE k \in at : \A j \in at : k <= j
             IN  <<SubSeq(s, 1, i - 1)>> \o Split(SubSeq(s, i + 1, Len(s)), sep)

\* sep.join(parts)
RECURSIVE Join(_, _)
Join(sep, parts) ==
    IF parts = <<>> THEN <<>>
    ELSE IF Len(parts) = 1 THEN parts[1]
    ELSE parts[1] \o <<sep>> \o Join(sep, Tail(parts))

\* a split of the dotted string on its first dot
get_group_and_name_first_dot(group_p_name) ==
    LET group_p_name_split == Split(group_p_name, ".")
    IN  <<group_p_name_split[1], Join(".", Tail(group_p_name_split))>>

\* get_group_and_name: <<package_group, package_name>>
get_group_and_name(group_p_name) ==
    LET group_p_name_split == Split(group_p_name, ".")
    IN  <<Join(".", SubSeq(group_p_name_split, 1, Len(group_p_name_split) - 1)),
          group_p_name_split[Len(group_p_name_split)]>>

\* instruction_execute, with the call of the Session it made (op "none" if it made none)
Executed(r, op, args, res) == [r |-> r, op |-> op, args |-> args, res |-> res]

ExecuteVersionsList(s, ins, res) ==
    LET gn == get_group_and_name(Split(ins, ":")[2])
        r == get_versions_list(s, gn[1], gn[2], res)
    IN  Executed(IF r.exc # NoExc THEN r ELSE Return([r.s EXCEPT !.out = pp_pprint(r.s.out, r.ret)], None),
                 "get_versions_list", gn, <<res>>)

ExecuteDownloadInfos(s, ins, res) ==
    LET fields == Split(ins, ":")
        gn == get_group_and_name(fields[2])
        r == get_download_infos(s, gn[1], gn[2], fields[3], res)
    IN  IF Len(fields) # 3 THEN Executed(Raise(s, ValueError), "none", <<>>, <<>>)
        ELSE Executed(IF r.exc # NoExc THEN r
                      ELSE Return([r.s EXCEPT !.out = pp_pprint(r.s.out, r.ret)], None),
                      "get_download_infos", gn \o <<fields[3]>>, <<res>>)

ExecuteDownload(s, ins, res, res2) ==
    LET fields == Split(ins, ":")
        gn == get_group_and_name(fields[2])
        r == download(s, gn[1], gn[2], fields[3], res, res2)
        line == IF r.ret # False THEN <<"Output file: ", r.ret.s>> ELSE <<"No data.">>
    IN  IF Len(fields) # 3 THEN Executed(Raise(s, ValueError), "none", <<>>, <<>>)
        ELSE Executed(IF r.exc # NoExc THEN r
                      ELSE Return([r.s EXCEPT !.out = builtin_print(r.s.out, line, "stdout")], None),
                      "download", gn \o <<fields[3]>>,
                      IF Len(r.s.requests) = Len(s.requests) + 2 THEN <<res, res2>> ELSE <<res>>)

\* an instruction_execute that raises on an instruction it does not support
instruction_execute_raises(s, ins, res, res2) ==
    IF StartsWith(ins, <<"versionsList", ":">>) THEN ExecuteVersionsList(s, ins, res)
    ELSE IF StartsWith(ins, <<"downloadInfos", ":">>) THEN ExecuteDownloadInfos(s, ins, res)
    ELSE IF StartsWith(ins, <<"download", ":">>) THEN ExecuteDownload(s, ins, res, res2)
    ELSE Executed(Raise([s EXCEPT !.out = builtin_print(s.out, <<"Invalid instruction: ">> \o ins, "stderr")],
                        ValueError),
                  "none", <<>>, <<>>)

instruction_execute(s, ins, res, res2) ==
    IF StartsWith(ins, <<"versionsList", ":">>) THEN ExecuteVersionsList(s, ins, res)
    ELSE IF StartsWith(ins, <<"downloadInfos", ":">>) THEN ExecuteDownloadInfos(s, ins, res)
    ELSE IF StartsWith(ins, <<"download", ":">>) THEN ExecuteDownload(s, ins, res, res2)
    ELSE Executed(Return([s EXCEPT !.out = builtin_print(s.out, <<"Invalid instruction: ">> \o ins, "stderr")],
                         None),
                  "none", <<>>, <<>>)

\* the answer the server gives to the first request of an instruction
FirstResponses(ins) ==
    IF StartsWith(ins, <<"versionsList", ":">>) THEN VersionsResponses ELSE InfosResponses

\* lines a user may type, and values of -x
Lines ==
    {<<"versionsList", ":", "org", ".", "x", ".", "n">>,
     <<"downloadInfos", ":", "org", ".", "x", ".", "n", ":", "1.0">>,
     <<"download", ":", "org", ".", "x", ".", "n", ":", "1.0">>,
     <<"downloadInfos", ":", "org", ".", "x", ".", "n">>,
     <<"bogus">>}

-----------------------------------------------------------------------------
(* Spec: main() of src/archiva-cli.py *)

\* the guarded block ended by the return of main()
Returning == [type |-> "return"]

Init ==
    /\ InitSession
    /\ level \in Levels
    /\ execute \in {<<"i">>} \cup Lines
    /\ pc = "with"

\* with s: -> Session.__enter__
Enter ==
    /\ pc = "with"
    /\ \E res \in LoginResponses :
        LET r == Session_enter(State, res)
        IN  /\ Becomes(r)
            /\ last' = Call("login", <<>>, <<res>>, r)
            /\ pending' = r.exc
            /\ pc' = IF r.exc = NoExc THEN "block" ELSE "handlers"
    /\ UNCHANGED <<set_referer, level, execute, executed, entered>>

\* a loop that catches what the instruction raised and reads on
AfterInstruction_reads_on(exc, stay) == IF stay THEN "block" ELSE "exit"

\* where main() goes after instruction_execute: the interactive loop (stay) reads the
\* next line, an exception or the single instruction leaves the guarded block
AfterInstruction(exc, stay) == IF exc = NoExc /\ stay THEN "block" ELSE "exit"

\* instruction_execute(s, ins) inside the guarded block
Run(ins, stay, o) ==
    \E res \in FirstResponses(ins), res2 \in ArtifactResponses :
        LET x == instruction_execute([State EXCEPT !.out = o], ins, res, res2)
        IN  /\ Becomes(x.r)
            /\ last' = IF x.op = "none" THEN last ELSE Call(x.op, x.args, x.res, x.r)
            /\ pending' = x.r.exc
            /\ pc' = AfterInstruction(x.r.exc, stay)
            /\ executed' = executed + 1
            /\ entered' = IF stay THEN ins ELSE entered
            /\ UNCHANGED <<set_referer, level, execute>>

\* ins = input("ins> ") of the interactive loop
Prompt == builtin_print(out, <<"ins> ">>, "stdout")

\* an entered line other than "q"
ReadExecute ==
    /\ pc = "block"
    /\ execute = <<"i">>
    /\ executed < MaxIns
    /\ \E ins \in Lines : Run(ins, TRUE, Prompt)

\* the line "q": return
ReadQuit ==
    /\ pc = "block"
    /\ execute = <<"i">>
    /\ out' = Prompt
    /\ entered' = <<"q">>
    /\ pending' = Returning
    /\ pc' = "exit"
    /\ UNCHANGED <<session_cookie, set_referer, level, requests, files, last, execute, executed>>

\* the end of standard input: input() raises EOFError
ReadEOF ==
    /\ pc = "block"
    /\ execute = <<"i">>
    /\ out' = Prompt
    /\ pending' = EOFError
    /\ pc' = "exit"
    /\ UNCHANGED <<session_cookie, set_referer, level, requests, files, last, execute, executed, entered>>

\* the single instruction of -x
ExecuteSingle ==
    /\ pc = "block"
    /\ execute # <<"i">>
    /\ Run(execute, FALSE, out)

\* the guarded block ended -> Session.__exit__
Exit ==
    /\ pc = "exit"
    /\ \E res \in LogoutResponses :
        LET r == Session_exit(State, res)
        IN  /\ Becomes(r)
            /\ last' = Call("logout", <<>>, <<res>>, r)
            /\ pending' = IF r.exc # NoExc THEN r.exc ELSE pending
    /\ pc' = "handlers"
    /\ UNCHANGED <<set_referer, level, execute, executed, entered>>

\* str(e) of an ErrorResponse
ErrorResponse_str(e) ==
    <<"Status Code: ", ToString(e.status_code), "; Error Messages: ", ToString(e.error_messages)>>

\* the except clauses of main(), or its end
Finish ==
    /\ pc = "handlers"
    /\ out' = CASE pending.type = "JSONDecodeError" -> Logger_e(out, <<"could not decode: ", pending.doc>>)
                 [] pending.type = "ErrorResponse" -> Logger_e(out, ErrorResponse_str(pending))
                 [] OTHER -> out
    /\ pc' = IF pending.type \in {"none", "return", "JSONDecodeError", "ErrorResponse"}
             THEN "done" ELSE "crashed"
    /\ UNCHANGED <<session_cookie, set_referer, level, requests, files, last, execute, executed, entered,
                   pending>>

Next == Enter \/ ReadExecute \/ ReadQuit \/ ReadEOF \/ ExecuteSingle \/ Exit \/ Finish

Spec == Init /\ [][Next]_vars

-----------------------------------------------------------------------------
(* Properties *)

IsLogin(req) == req.method = "POST" /\ req.uri = LoginUri
IsLogout(req) == req.method = "GET" /\ req.uri = LogoutUri
LogoutCount == Cardinality({i \in 1 .. Len(requests) : IsLogout(requests[i])})

\* main() logged in: the login POST went out and set the token
LoginSucceeded == requests # <<>> /\ IsLogin(requests[1]) /\ session_cookie # Unset
\* main() is past the guarded block and past __exit__
AfterExit == pc \in {"handlers", "done", "crashed"}

\* C1: once login succeeded in the with statement, no logout request is sent while the
\* guarded block runs or has just ended, and after __exit__ exactly one has been sent,
\* as the last request, however the block ended (normally, by return, by any exception).
C1_LogoutExactlyOnceAfterBlock ==
    /\ pc \in {"with", "block", "exit"} => LogoutCount = 0
    /\ (AfterExit /\ LoginSucceeded) =>
           /\ LogoutCount = 1
           /\ IsLogout(requests[Len(requests)])
           /\ pending.type \in {"none", "return", "ErrorResponse", "JSONDecodeError",
                                 "ValueError", "EOFError"}

C1_Witness ==
    /\ pc = "done" /\ LoginSucceeded /\ LogoutCount = 1
    /\ pending.type = "ErrorResponse" /\ executed = 2

\* the login of main() got an answer other than 200 OK
LoginRefused == last.op = "login" /\ last.res[1].status_code # 200

\* C2: when the login of the with statement is answered with a status other than 200,
\* the guarded block does not run and __exit__ is not called: the login POST stays the
\* only request (no logout, no request with a cookie), no token is set, and the error
\* login raised is the one that leaves the with statement.
C2_FailedLoginSkipsBlockAndExit ==
    LoginRefused =>
        /\ AfterExit
        /\ Len(requests) = 1 /\ IsLogin(requests[1]) /\ "Cookie" \notin DOMAIN requests[1].headers
        /\ LogoutCount = 0
        /\ executed = 0
        /\ session_cookie = Unset
        /\ last.exc # NoExc /\ pending = last.exc

C2_Witness == LoginRefused /\ pc = "done" /\ pending.type = "ErrorResponse"

\* the Set-Cookie header of the answer to the last login, and whether it names JSESSIONID
LoginAccepted ==
    last.op = "login" /\ last.res[1].status_code = 200 /\ "Set-Cookie" \in DOMAIN last.res[1].headers
LastSetCookie == last.res[1].headers["Set-Cookie"]

\* "JSESSIONID" stands in c at position i
NamedAt(c, i) ==
    /\ i + Len(JSESSIONID) - 1 <= Len(c)
    /\ SubSeq(c, i, i + Len(JSESSIONID) - 1) = JSESSIONID

\* the part of c from the first "JSESSIONID" up to the next ";", or to the end of c
TokenOf(c) ==
    LET start == CHOOSE i \in 1 .. Len(c) : NamedAt(c, i) /\ \A j \in 1 .. (i - 1) : ~NamedAt(c, j)
        semis == {i \in start .. Len(c) : c[i] = ";"}
        stop == IF semis = {} THEN Len(c) + 1 ELSE CHOOSE i \in semis : \A j \in semis : i <= j
    IN  SubSeq(c, start, stop - 1)
NamesJSessionId(c) == \E i \in 1 .. Len(c) : NamedAt(c, i)

\* C3: after a login answered 200 OK whose Set-Cookie names JSESSIONID, login raised
\* nothing and the token is the part of Set-Cookie from "JSESSIONID" up to the next
\* semicolon, or up to the end of the value when no semicolon follows.
C3_TokenRunsToSemicolonOrEnd ==
    (LoginAccepted /\ NamesJSessionId(LastSetCookie)) =>
        /\ last.exc = NoExc
        /\ session_cookie = TokenOf(LastSetCookie)

\* the last login was refused with a JSON body holding an "errorMessages" list whose
\* entries all have an errorKey
RefusedWithMessages ==
    /\ LoginRefused
    /\ last.res[1].body.encoding = "json"
    /\ last.res[1].body.of.t = "obj"
    /\ "errorMessages" \in DOMAIN last.res[1].body.of
    /\ \A i \in 1 .. Len(last.res[1].body.of.errorMessages.items) :
           "errorKey" \in DOMAIN last.res[1].body.of.errorMessages.items[i]
RefusedMessages == last.res[1].body.of.errorMessages

\* the lines the logger's error method emitted since the last call began
ErrorLinesOfLastCall ==
    SelectSeq(SubSeq(out, last.pre.out + 1, Len(out)), LAMBDA l : l.tag = "E")
ErrorKeyLines(entries) ==
    [i \in 1 .. Len(entries) |-> [tag |-> "E", msg |-> <<entries[i].errorKey>>, file |-> "stderr"]]

\* C4: a login refused with any status other than 200 and a JSON body holding an
\* "errorMessages" list (of entries with an errorKey) raises ErrorResponse with that
\* status and exactly that list, leaves the token as it was (none), and has passed each
\* entry's errorKey, in order, to the logger's error method, which emits them unless the
\* logger is set to suppress.
C4_RefusedLoginRaisesMessages ==
    RefusedWithMessages =>
        /\ last.exc = [type |-> "ErrorResponse", status_code |-> last.res[1].status_code,
                       error_messages |-> RefusedMessages]
        /\ session_cookie = last.pre.session_cookie
        /\ session_cookie = Unset
        /\ pc = "handlers" =>
               ErrorLinesOfLastCall = IF level <= 3 THEN ErrorKeyLines(RefusedMessages.items) ELSE <<>>

C4_Witness ==
    /\ RefusedWithMessages /\ pc = "handlers" /\ level = 3
    /\ last.res[1].status_code = 401
    /\ Len(RefusedMessages.items) = 2
    /\ Len(ErrorLinesOfLastCall) = 2

\* the last call was made with a token set, and its first request was answered 200 OK
\* with a JSON document
GotJson(op) ==
    /\ last.op = op
    /\ last.pre.session_cookie # Unset
    /\ last.res[1].status_code = 200
    /\ last.res[1].body.encoding = "json"
\* the requests the last call sent
RequestsOfLastCall == SubSeq(requests, last.pre.requests + 1, Len(requests))

\* get_download_infos, called by the last download(), returned the empty list
DownloadGotNone == GotJson("download") /\ last.res[1].body.of.items = <<>>

\* C5: when get_download_infos returns an empty sequence, download returns False, has
\* sent the download infos request and no other, and has left every local file alone.
C5_NoInfosNoFetchNoFile ==
    DownloadGotNone =>
        /\ last.exc = NoExc
        /\ last.ret = [t |-> "bool", b |-> FALSE]
        /\ Len(RequestsOfLastCall) = 1
        /\ RequestsOfLastCall[1].uri = DownloadInfosUri(last.args[1], last.args[2], last.args[3])
        /\ files = last.pre.files

C5_Witness == DownloadGotNone /\ last.ret = [t |-> "bool", b |-> FALSE] /\ Len(requests) = 2

\* get_download_infos, called by the last download(), returned one record or more
DownloadGotSome == GotJson("download") /\ last.res[1].body.of.items # <<>>
FirstInfo == last.res[1].body.of.items[1]

\* C6: when get_download_infos returns one record or more, download GETs the url of the
\* first record with the session's cookie; answered 200 OK it writes the response body to
\* the file named by the first record's id, touches no other file and returns that
\* name; answered otherwise it raises ErrorResponse with that status and writes no file.
C6_DownloadUsesFirstRecord ==
    DownloadGotSome =>
        /\ Len(RequestsOfLastCall) = 2 /\ Len(last.res) = 2
        /\ RequestsOfLastCall[2].method = "GET"
        /\ RequestsOfLastCall[2].uri = <<FirstInfo.url>>
        /\ last.res[2].status_code = 200 =>
               /\ last.exc = NoExc
               /\ last.ret = [t |-> "str", s |-> FirstInfo.id]
               /\ files = [f \in FileNames |->
                               IF f = FirstInfo.id THEN last.res[2].body ELSE last.pre.files[f]]
        /\ last.res[2].status_code # 200 =>
               /\ last.exc = [type |-> "ErrorResponse", status_code |-> last.res[2].status_code,
                              error_messages |-> [t |-> "list", items |-> <<>>]]
               /\ files = last.pre.files

C6_Witness ==
    /\ DownloadGotSome /\ Len(last.res[1].body.of.items) = 2
    /\ FirstInfo.id = "b.jar"
    /\ last.res[2].status_code = 200
    /\ files["b.jar"] = last.res[2].body /\ files["a.jar"] = NoFile

\* the last call was get_versions_list or get_download_infos, made with a token set
Browsed == last.op \in {"get_versions_list", "get_download_infos"} /\ last.pre.session_cookie # Unset

\* C7: get_versions_list and get_download_infos return the decoded JSON body as it is when
\* answered 200 OK; answered otherwise they pass "status code: <status>" to the logger's
\* error method (emitted unless the logger suppresses) and raise ErrorResponse with exactly
\* that status and no messages; either way the token stays as it was.
C7_BrowseReturnsBodyOrRaisesStatus ==
    Browsed =>
        /\ session_cookie = last.pre.session_cookie
        /\ (last.res[1].status_code = 200 /\ last.res[1].body.encoding = "json") =>
               /\ last.exc = NoExc
               /\ last.ret = last.res[1].body.of
               /\ ErrorLinesOfLastCall = <<>>
        /\ last.res[1].status_code # 200 =>
               /\ last.exc = [type |-> "ErrorResponse", status_code |-> last.res[1].status_code,
                              error_messages |-> [t |-> "list", items |-> <<>>]]
               /\ ErrorLinesOfLastCall =
                      IF level <= 3
                      THEN <<[tag |-> "E", file |-> "stderr",
                              msg |-> <<"status code: ", ToString(last.res[1].status_code)>>]>>
                      ELSE <<>>

C7_Witness ==
    /\ Browsed /\ last.op = "get_versions_list"
    /\ last.res[1].status_code = 200
    /\ last.ret = [t |-> "obj", versions |-> [t |-> "list", items |-> <<"1.0", "1.1">>]]

\* a step in which login() was answered 200 OK with a Set-Cookie header
LoginStep ==
    /\ last'.op = "login" /\ last'.exc = NoExc
    /\ last'.res[1].status_code = 200 /\ "Set-Cookie" \in DOMAIN last'.res[1].headers

\* C8: in every step, the login POST carries no Cookie header, and every other request
\* sent carries a Cookie header equal to the session's token, which is the token the
\* most recent successful login captured: the token exists when the request is sent, a
\* successful login sets it to what it extracts from Set-Cookie, and no other step
\* changes it.
C8_RequestsCarryCurrentToken ==
    [][/\ \A i \in (Len(requests) + 1) .. Len(requests') :
              IF IsLogin(requests'[i])
              THEN "Cookie" \notin DOMAIN requests'[i].headers
              ELSE /\ "Cookie" \in DOMAIN requests'[i].headers
                   /\ session_cookie # Unset
                   /\ requests'[i].headers["Cookie"] = session_cookie
                   /\ session_cookie' = session_cookie
        /\ IF LoginStep
           THEN session_cookie' = extract_session_cookie(last'.res[1].headers["Set-Cookie"])
           ELSE session_cookie' = session_cookie
        /\ SubSeq(requests', 1, Len(requests)) = requests]_vars

\* two logins, then a request that carries the token of the second
C8_Witness ==
    /\ Len(requests) = 3
    /\ IsLogin(requests[1]) /\ IsLogin(requests[2])
    /\ last.op = "get_download_infos"
    /\ last.pre.session_cookie = JSESSIONID \o <<"=", "y", "z">>
    /\ requests[3].headers["Cookie"] = JSESSIONID \o <<"=", "y", "z">>

\* the last call was one of the authenticated operations, on a session no login has
\* given a token
CalledBeforeLogin ==
    /\ last.op \in {"logout", "get_versions_list", "get_download_infos", "download"}
    /\ last.pre.session_cookie = Unset

\* C9 as claimed: an authenticated operation called on a session without a token still
\* sends its request to the server.
C9_RequestStillSent == CalledBeforeLogin => Len(requests) > last.pre.requests

\* C9 as amended: an authenticated operation called on a session without a token sends
\* no request: it raises AttributeError for the missing session_cookie before anything
\* is logged, sent or written.
C9_NoTokenNoRequest ==
    CalledBeforeLogin =>
        /\ last.exc = [type |-> "AttributeError", name |-> "session_cookie"]
        /\ Len(requests) = last.pre.requests
        /\ Len(out) = last.pre.out
        /\ files = last.pre.files
        /\ session_cookie = Unset

C9_Witness ==
    /\ CalledBeforeLogin /\ last.op = "logout" /\ requests = <<>>
    /\ last.exc.type = "AttributeError"

\* C10: the token changes only in a step in which login() was answered 200 OK with a
\* Set-Cookie header: logout, get_versions_list, get_download_infos, download and a
\* failed login leave it as it was.
C10_OnlyLoginWritesToken == [][session_cookie' # session_cookie => LoginStep]_vars

\* after a logout, a later call still sent the token the login had set
C10_Witness ==
    /\ Len(requests) = 3
    /\ IsLogin(requests[1]) /\ IsLogout(requests[2])
    /\ last.op = "get_versions_list"
    /\ session_cookie # Unset
    /\ requests[2].headers["Cookie"] = session_cookie
    /\ requests[3].headers["Cookie"] = session_cookie

-----------------------------------------------------------------------------
(* Properties of the Logger *)

\* the levels, info < warning < error < suppress
InfoLevel == 1
WarningLevel == 2
ErrorLevel == 3
SuppressLevel == 4

\* the last call was the logger's info, warn or error method, of this level
Gated == last.op \in {"i", "w", "e"}
MessageLevel == CASE last.op = "i" -> InfoLevel [] last.op = "w" -> WarningLevel [] last.op = "e" -> ErrorLevel
\* the last call wrote a line
Emitted == Len(out) = last.pre.out + 1

\* C11 as claimed: the info, warn or error method emits a line only if the message's
\* level is less than or equal to the logger's configured level.
C11_EmitsOnlyIfMessageAtMostConfigured == (Gated /\ Emitted) => MessageLevel <= level

\* C11 as amended: the info, warn or error method emits a line only if the logger's
\* configured level is less than or equal to the message's level; a call that emits
\* nothing leaves the output as it was.
C11_EmitsOnlyIfConfiguredAtMostMessage ==
    Gated =>
        /\ Emitted => level <= MessageLevel
        /\ ~Emitted => Len(out) = last.pre.out

C11_Witness == Gated /\ Emitted /\ last.op = "e" /\ level = WarningLevel

\* C12: info messages are emitted exactly when the level is info, warning messages when
\* it is warning or info, error messages when it is error, warning or info; under
\* suppress none of the three is emitted; a direct call of log always emits, with the
\* tag in upper case.
C12_EmissionTable ==
    /\ last.op = "i" => (Emitted <=> level = InfoLevel)
    /\ last.op = "w" => (Emitted <=> level \in {WarningLevel, InfoLevel})
    /\ last.op = "e" => (Emitted <=> level \in {ErrorLevel, WarningLevel, InfoLevel})
    /\ (Gated /\ level = SuppressLevel) => Len(out) = last.pre.out
    /\ (Gated /\ Emitted) =>
           out[Len(out)] = [tag |-> CASE last.op = "i" -> "I" [] last.op = "w" -> "W" [] last.op = "e" -> "E",
                            msg |-> last.args[1],
                            file |-> IF last.op = "i" THEN "stdout" ELSE "stderr"]
    /\ last.op = "log" =>
           /\ Emitted
           /\ out[Len(out)].msg = last.args[2]
           /\ out[Len(out)].tag = (IF last.args[1] = <<"i">> THEN "I" ELSE last.args[1][1])

C12_Witness ==
    /\ level = SuppressLevel /\ last.op = "log" /\ Emitted
    /\ Len(out) = 1 /\ executed = 2

\* the last call constructed a Logger from one level string
Constructed == last.op = "Logger" /\ last.args # <<>>
\* the first character of the level string, or "" for the empty string
FirstChar == IF last.args[1] = <<>> THEN "" ELSE last.args[1][1]

-----------------------------------------------------------------------------
(* SpecSplit: main() run with -x versionsList:<dotted>, for every dotted string *)

\* the strings given in the place of {group}.{name}
Dotted == UNION {[1 .. n -> {"a", "b", "."}] : n \in 0 .. MaxDotted}

InitSplit ==
    /\ InitSession
    /\ set_referer = FALSE
    /\ level = Logger_new(<<>>)
    /\ execute \in {<<"versionsList", ":">> \o w : w \in Dotted}
    /\ pc = "with"

NextSplit == Enter \/ ExecuteSingle \/ Exit \/ Finish

SpecSplit == InitSplit /\ [][NextSplit]_vars

\* the dotted string of the instruction, and what the Session was called with
DottedOfExecute == SubSeq(execute, 3, Len(execute))
HasDot(w) == \E i \in 1 .. Len(w) : w[i] = "."
DispatchedVersionsList == last.op = "get_versions_list"

\* C18: the group the dispatcher passes to the Session is everything before the last
\* dot of the dotted string and the name is what follows it: the name holds no dot,
\* group + "." + name is the dotted string whenever that holds a dot, and a string
\* without a dot gives the empty group and the whole string as name; the request is
\* sent for that group and name.
C18_SplitOnLastDot ==
    DispatchedVersionsList =>
        LET w == DottedOfExecute
            group == last.args[1]
            name == last.args[2]
        IN  /\ ~HasDot(name)
            /\ IF HasDot(w) THEN group \o <<".">> \o name = w
                            ELSE group = <<>> /\ name = w
            /\ Len(RequestsOfLastCall) = 1
            /\ RequestsOfLastCall[1].uri = VersionsListUri(group, name)

C18_Witness ==
    /\ DispatchedVersionsList
    /\ DottedOfExecute = <<"a", ".", "b", ".", "a">>
    /\ last.args = <<<<"a", ".", "b">>, <<"a">>>>
    /\ last.exc = NoExc

-----------------------------------------------------------------------------
(* Properties of main() and of the Session, continued *)

\* an instruction of main() raised ErrorResponse or JSONDecodeError
Aborted == executed >= 1 /\ pending.type \in {"ErrorResponse", "JSONDecodeError"}
\* the line the except clauses of main() pass to the logger's error method
TopLevelLine ==
    [tag |-> "E", file |-> "stderr",
     msg |-> IF pending.type = "JSONDecodeError" THEN <<"could not decode: ", pending.doc>>
             ELSE <<"Status Code: ", ToString(pending.status_code),
                    "; Error Messages: ", ToString(pending.error_messages)>>]
TopLevelLogged == \E i \in 1 .. Len(out) : out[i] = TopLevelLine

\* C14: once an instruction of main() has raised ErrorResponse or a JSON decode failure,
\* no further line is read and no instruction is executed or tried again; the only
\* request that follows is the one logout of __exit__; the error is passed to the
\* logger's error method by the except clauses after that logout and not before.
C14_FailureAbortsThenLogoutThenLog ==
    /\ [](Aborted =>
            /\ pc \in {"exit", "handlers", "done"}
            /\ pc = "exit" => (LogoutCount = 0 /\ ~TopLevelLogged)
            /\ pc = "handlers" => (LogoutCount = 1 /\ IsLogout(requests[Len(requests)]) /\ ~TopLevelLogged)
            /\ pc = "done" =>
                   /\ LogoutCount = 1 /\ IsLogout(requests[Len(requests)])
                   /\ IF level <= 3 THEN out[Len(out)] = TopLevelLine ELSE ~TopLevelLogged)
    /\ [][Aborted =>
              /\ executed' = executed /\ entered' = entered /\ pending' = pending
              /\ files' = files
              /\ \/ requests' = requests
                 \/ pc = "exit" /\ requests' = Append(requests, requests'[Len(requests')])
                                /\ IsLogout(requests'[Len(requests')])]_vars

C14_Witness ==
    /\ Aborted /\ pc = "done" /\ execute = <<"i">> /\ executed = 2
    /\ pending.type = "JSONDecodeError" /\ level = 3
    /\ out[Len(out)] = TopLevelLine /\ LogoutCount = 1

\* the last call was a method of the Session that can reach the network: login, or an
\* authenticated method on a session holding a token
CouldSend ==
    \/ last.op = "login"
    \/ /\ last.op \in {"logout", "get_versions_list", "get_download_infos", "download"}
       /\ last.pre.session_cookie # Unset

RefusedBodyHasMessages ==
    /\ last.res[1].body.encoding = "json"
    /\ "errorMessages" \in DOMAIN last.res[1].body.of

\* C16: a login refused with a body without "errorMessages" raises ErrorResponse with the
\* status and the decoded body if the body is JSON, ErrorResponse with the status and no
\* messages if the body is empty, and the JSON decode failure itself if the body is other
\* text; the token stays as it was.
C16_RefusedLoginWithoutMessages ==
    (LoginRefused /\ ~RefusedBodyHasMessages) =>
        /\ session_cookie = last.pre.session_cookie
        /\ last.res[1].body.encoding = "json" =>
               last.exc = [type |-> "ErrorResponse", status_code |-> last.res[1].status_code,
                           error_messages |-> last.res[1].body.of]
        /\ (last.res[1].body.encoding = "text" /\ last.res[1].body.text = "") =>
               last.exc = [type |-> "ErrorResponse", status_code |-> last.res[1].status_code,
                           error_messages |-> [t |-> "list", items |-> <<>>]]
        /\ (last.res[1].body.encoding = "text" /\ last.res[1].body.text # "") =>
               last.exc = [type |-> "JSONDecodeError", doc |-> last.res[1].body.text]

\* the instruction main() executed last, while nothing has followed it
LastInstruction == IF execute = <<"i">> THEN entered ELSE execute
JustExecuted ==
    /\ pc \in {"block", "exit"} /\ executed >= 1
    /\ pending.type \notin {"return", "EOFError"}
\* ins has one of the forms versionsList:{group}.{name},
\* downloadInfos:{group}.{name}:{version}, download:{group}.{name}:{version}
MatchesGrammar(ins) ==
    LET fields == Split(ins, ":")
    IN  \/ Len(fields) = 2 /\ fields[1] = <<"versionsList">>
        \/ Len(fields) = 3 /\ fields[1] \in {<<"downloadInfos">>, <<"download">>}
InvalidLine(ins) == [tag |-> "", msg |-> <<"Invalid instruction: ">> \o ins, file |-> "stderr"]

\* C17: an instruction of none of the three forms, one with a known prefix and a missing
\* field included, is reported on the error stream by instruction_execute, which raises
\* nothing and sends no request.
C17_MalformedInstructionIsReported ==
    (JustExecuted /\ ~MatchesGrammar(LastInstruction)) =>
        /\ pending = NoExc
        /\ out[Len(out)] = InvalidLine(LastInstruction)
        /\ executed = 1 => Len(requests) = 1

\* a request for an artifact, and the download infos request of the packages browsed
IsArtifactFetch(req) == \E l \in InfoLists : \E i \in 1 .. Len(l) : req.uri = <<l[i].url>>
IsDownloadInfos(req) ==
    \E g \in Groups, n \in Names, v \in PackageVersions : req.uri = DownloadInfosUri(g, n, v)
InfosRefused ==
    /\ last.op = "download" /\ last.pre.session_cookie # Unset
    /\ last.res[1].status_code # 200

\* C19: a request that fetches an artifact directly follows a download infos request of
\* the same download() call, and that request was answered 200 with a list that is not
\* empty; when the download infos request of download() is answered with another status,
\* download() raises the ErrorResponse of that status, sends no second request and
\* writes no file.
C19_ArtifactFetchOnlyAfterInfos ==
    /\ \A i \in 1 .. Len(requests) :
           IsArtifactFetch(requests[i]) => (i > 1 /\ IsDownloadInfos(requests[i - 1]))
    /\ (last.op = "download" /\ \E i \in 1 .. Len(RequestsOfLastCall) : IsArtifactFetch(RequestsOfLastCall[i])) =>
           /\ Len(RequestsOfLastCall) = 2
           /\ RequestsOfLastCall[1].uri = DownloadInfosUri(last.args[1], last.args[2], last.args[3])
           /\ last.res[1].status_code = 200
           /\ last.res[1].body.encoding = "json"
           /\ last.res[1].body.of.t = "list" /\ last.res[1].body.of.items # <<>>
           /\ RequestsOfLastCall[2].uri = <<last.res[1].body.of.items[1].url>>
    /\ InfosRefused =>
           /\ last.exc = [type |-> "ErrorResponse", status_code |-> last.res[1].status_code,
                          error_messages |-> [t |-> "list", items |-> <<>>]]
           /\ Len(RequestsOfLastCall) = 1
           /\ IsDownloadInfos(RequestsOfLastCall[1])
           /\ files = last.pre.files

C19_Witness ==
    /\ InfosRefused /\ last.res[1].status_code = 500
    /\ last.exc.type = "ErrorResponse" /\ Len(RequestsOfLastCall) = 1
    /\ \E i \in 1 .. last.pre.requests : IsArtifactFetch(requests[i])

\* ins starts with none of the three prefixes instruction_execute knows
Unsupported(ins) ==
    /\ ~StartsWith(ins, <<"versionsList", ":">>)
    /\ ~StartsWith(ins, <<"downloadInfos", ":">>)
    /\ ~StartsWith(ins, <<"download", ":">>)
\* the requests a step appended
Appended == SubSeq(requests', Len(requests) + 1, Len(requests'))
\* the interactive loop is about to read a line
Reading == pc = "block" /\ execute = <<"i">>
CleanInteractiveRun == execute = <<"i">> /\ pc = "done" /\ pending = Returning

\* C20: in interactive mode every step of the loop either reads "q", which executes
\* nothing, sends nothing and leaves the loop by return; or meets the end of input; or
\* executes the entered line as one more instruction, whose requests, if any, are
\* appended to the trace; after a line that is only reported as invalid the loop reads
\* again. A run ended by "q" has the trace login, the instructions' requests, logout,
\* with exactly one logout.
C20_InteractiveLoop ==
    /\ [][Reading =>
              /\ Len(requests') >= Len(requests)
              /\ SubSeq(requests', 1, Len(requests)) = requests
              /\ IF entered' = <<"q">>
                 THEN /\ Appended = <<>> /\ executed' = executed /\ files' = files
                      /\ pending' = Returning /\ pc' = "exit"
                 ELSE IF pending'.type = "EOFError"
                 THEN Appended = <<>> /\ executed' = executed /\ pc' = "exit"
                 ELSE /\ executed' = executed + 1
                      /\ \A i \in 1 .. Len(Appended) : ~IsLogin(Appended[i]) /\ ~IsLogout(Appended[i])
                      /\ (MatchesGrammar(entered') /\ StartsWith(entered', <<"versionsList", ":">>)) =>
                             /\ Len(Appended) = 1
                             /\ Appended[1].uri = VersionsListUri(<<"org", ".", "x">>, <<"n">>)
                      /\ (MatchesGrammar(entered') /\ ~StartsWith(entered', <<"versionsList", ":">>)) =>
                             /\ Len(Appended) \in {1, 2}
                             /\ Appended[1].uri = DownloadInfosUri(<<"org", ".", "x">>, <<"n">>, <<"1.0">>)
                             /\ Len(Appended) = 2 =>
                                    (StartsWith(entered', <<"download", ":">>) /\ IsArtifactFetch(Appended[2]))
                      /\ Unsupported(entered') =>
                             /\ Appended = <<>> /\ pending' = NoExc /\ pc' = "block"
                             /\ out'[Len(out')] = InvalidLine(entered')]_vars
    /\ [](CleanInteractiveRun =>
              /\ entered = <<"q">>
              /\ Len(requests) >= 2
              /\ IsLogin(requests[1]) /\ IsLogout(requests[Len(requests)])
              /\ LogoutCount = 1
              /\ \A i \in 2 .. Len(requests) - 1 : ~IsLogin(requests[i]) /\ ~IsLogout(requests[i]))

C20_Witness ==
    /\ CleanInteractiveRun /\ executed = 2 /\ Len(requests) = 3
    /\ requests[2].uri = VersionsListUri(<<"org", ".", "x">>, <<"n">>)
    /\ \E i, j \in 1 .. Len(out) :
           /\ i < j
           /\ out[i] = InvalidLine(<<"bogus">>)
           /\ out[j].msg = <<"pprint">>

=============================================================================
